---------------------------- MODULE Spec2Model ----------------------------
(***************************************************************************)
(* The Activity block of i3status-rust (src/blocks/activity.rs): drift     *)
(* compensation of the XScreenSaver idle reading, phase classification,    *)
(* countdown / countup, severity and the HHhMMmSS label; and its click     *)
(* handler.  And the GmailCount block (src/blocks/gmailcount.rs): the      *)
(* unread count cut out of the feed that curl fetched, and its severity.   *)
(*                                                                         *)
(* Time is the monotonic clock (std::time::Instant) in milliseconds.  One  *)
(* call of a handler is one step: the handler runs dt milliseconds after   *)
(* the previous handler ran, and every Instant::now() / elapsed() inside   *)
(* one call reads the same instant.  Durations of the configuration are    *)
(* kept as the whole seconds the code reads with as_secs().                *)
(***************************************************************************)
EXTENDS Integers, Sequences, FiniteSets, TLC

VARIABLES
    now,                \* the monotonic clock, ms
    update_interval,    \* Activity.update_interval, s
    reset_time,         \* Activity.reset_time, s
    idle_threshold,     \* Activity.idle_threshold, s
    start_time,         \* Activity.start_time, ms instant
    idle_start_time,    \* Activity.idle_start_time, ms instant
    idle_last_reading,  \* Activity.idle_last_reading, ms
    text,               \* Activity.text: the widget's text, a sequence of characters
    state,              \* Activity.text: the widget's State
    op,                 \* the handler that ran last: "new", "update", "click"
    ret,                \* what the last update returned: the interval of Update::Every, or -1
    tick,               \* the last update: its locals (raw idle, compensated idle, idle
                        \* seconds, elapsed, branch), its instant, the handler before
                        \* it, whether the update before it compensated, whether
                        \* no query has been supported so far
    last_active,        \* countup shown by the last Active update since start_time was set, or -1
    frozen,             \* the idle reader has stopped changing its reading
    gmail_interval,     \* GmailCount.update_interval, s
    threshold_warning,  \* GmailCount.threshold_warning
    threshold_critical, \* GmailCount.threshold_critical
    gmail_text,         \* GmailCount.text: the widget's text, a sequence of characters
    gmail_state,        \* GmailCount.text: the widget's State
    gmail_op,           \* GmailCount's last handler: "new", "update", or "panicked"
    gmail_ret,          \* what the last GmailCount update returned: the interval, or -1
    gmail_last          \* the last GmailCount update: how its fetch ended and what
                        \* the update made of it

\* the fields of the Activity block, with the clock and the idle reader
avars == <<now, update_interval, reset_time, idle_threshold, start_time,
           idle_start_time, idle_last_reading, text, state, op, ret, tick,
           last_active, frozen>>

\* the fields of the GmailCount block
gvars == <<gmail_interval, threshold_warning, threshold_critical, gmail_text,
           gmail_state, gmail_op, gmail_ret, gmail_last>>

vars == <<avars, gvars>>

---------------------------------------------------------------------------
(* Bounds of the model *)

\* the horizon of the clock, in half seconds
Horizon == 10

\* the horizon of the clock, ms
MaxNow == Horizon * 500

\* the horizon of the clock of the long-running scenario, s
LongHorizon == 3726

\* the horizon of the clock of the long-running scenario, ms
LongMaxNow == LongHorizon * 1000

\* milliseconds between two handler calls
Steps == {0, 500, 1000}

\* results of XScreenSaverQueryInfo: <<status, info.idle>>; status 0 is "not supported"
Queries == {<<0, 0>>} \cup ({1} \X {0, 900, 1000, 2100, 3000})

\* configurations <<reset_time, idle_threshold, interval>>, s
Configs == {<<3, 1, 1>>, <<2, 2, 5>>, <<1, 2, 1>>, <<0, 0, 1>>}

\* the scenario of the frozen reader
FrozenConfigs == {<<3, 1, 1>>, <<1, 2, 1>>}

FrozenSteps == {500, 1000}

FrozenQueries == {<<0, 0>>} \cup ({1} \X {0, 900, 2100})

LongSteps == {0, 1800999, 1801000, 3000999, 3001000, 3600000, 3725000}

LongQueries == {<<0, 0>>} \cup ({1} \X {0, 241000, 39000000})

\* the defaults (reset 300 s, threshold 10 s, interval 1 s) and three others
LongConfigs == {<<300, 10, 1>>, <<4000, 2000, 5>>, <<2, 1, 1>>, <<400000, 10, 1>>}

\* GmailCount configurations <<interval, threshold_warning, threshold_critical>>:
\* the defaults, warning above critical, both 0, both equal
GmailConfigs == {<<60, 1, 10>>, <<5, 3, 2>>, <<60, 0, 0>>, <<1, 2, 2>>}

\* the texts between the tags of the feeds fetched
Counts == {<<"0">>, <<"1">>, <<"2">>, <<"3">>, <<"1", "0">>, <<"1", "2">>, <<"0", "7">>, <<"+", "2">>,
           <<>>, <<"+">>, <<"-", "3">>, <<" ", "3">>, <<"3", "a">>}

---------------------------------------------------------------------------
(* Helpers of the standard library *)

\* Duration::as_secs of a duration given in ms
as_secs(ms) == ms \div 1000

\* Instant::elapsed: the duration from instant t to the current instant n
elapsed_since(t, n) == n - t

Digit(d) == CASE d = 0 -> "0" [] d = 1 -> "1" [] d = 2 -> "2" [] d = 3 -> "3"
              [] d = 4 -> "4" [] d = 5 -> "5" [] d = 6 -> "6" [] d = 7 -> "7"
              [] d = 8 -> "8" [] d = 9 -> "9"

RECURSIVE Decimal(_)
\* the decimal digits of n >= 0, as format!("{}") writes them
Decimal(n) == IF n < 10 THEN <<Digit(n)>> ELSE Append(Decimal(n \div 10), Digit(n % 10))

\* format!("{:02}", n): the decimal digits, zero-padded on the left to width 2
Fmt02(n) == IF Len(Decimal(n)) < 2 THEN <<"0">> \o Decimal(n) ELSE Decimal(n)

---------------------------------------------------------------------------
(* activity.rs *)

\* the two bounds of the match on the active countup
InfoLimit == 1800
WarningLimit == 3000

\* get_idle: 0 when the query is not supported, else info.idle
get_idle(q) == IF q[1] = 0 THEN 0 ELSE q[2]

\* update, lines 151-158: is the stalled reading compensated
Compensated(idle, last, ist, thr, n) ==
    /\ idle = last
    /\ as_secs(elapsed_since(ist, n)) >= thr

\* mutant: the synthetic milliseconds are the threshold, not the time stalled
Compensate_const(idle, last, ist, thr, n) ==
    IF idle = last /\ as_secs(elapsed_since(ist, n)) >= thr
    THEN idle + thr * 1000
    ELSE idle

\* mutant: a stalled reading is never compensated
Compensate_none(idle, last, ist, thr, n) == idle

\* mutant: the time stalled is added in milliseconds taken for seconds
Compensate_millis(idle, last, ist, thr, n) ==
    IF idle = last /\ as_secs(elapsed_since(ist, n)) >= thr
    THEN idle + elapsed_since(ist, n) * 1000
    ELSE idle

\* mutant: the seconds stalled are added without the factor 1000
Compensate_secs(idle, last, ist, thr, n) ==
    IF idle = last /\ as_secs(elapsed_since(ist, n)) >= thr
    THEN idle + as_secs(elapsed_since(ist, n))
    ELSE idle

\* update, lines 151-158: the idle milliseconds after drift compensation
Compensate(idle, last, ist, thr, n) ==
    IF idle = last
    THEN IF as_secs(elapsed_since(ist, n)) >= thr
         THEN idle + as_secs(elapsed_since(ist, n)) * 1000
         ELSE idle
    ELSE idle

\* mutant: the threshold itself still counts as active
Phase_gt(idle, reset, thr) ==
    IF idle >= reset THEN "AwayComplete"
    ELSE IF idle > thr THEN "Idle"
    ELSE "Active"

\* mutant: the Idle branch ends one second late
Phase_late(idle, reset, thr) ==
    IF idle > reset THEN "AwayComplete"
    ELSE IF idle >= thr THEN "Idle"
    ELSE "Active"

\* update, lines 162-173: the branch taken for idle seconds
Phase(idle, reset, thr) ==
    IF idle >= reset THEN "AwayComplete"
    ELSE IF idle >= thr THEN "Idle"
    ELSE "Active"

\* mutant: the last second of the countdown is already Info
IdleState_last(elapsed) == IF elapsed > 1 THEN "Warning" ELSE "Info"

\* update, lines 167-171: severity of the countdown
IdleState(elapsed) == IF elapsed > 0 THEN "Warning" ELSE "Info"

\* mutant: the bounds of the match are exclusive
ActiveState_excl(elapsed) ==
    CASE elapsed \in 0..(InfoLimit - 1) -> "Info"
      [] elapsed \in InfoLimit..(WarningLimit - 1) -> "Warning"
      [] OTHER -> "Critical"

\* update, lines 175-179: severity of the countup
ActiveState(elapsed) ==
    CASE elapsed \in 0..InfoLimit -> "Info"
      [] elapsed \in (InfoLimit + 1)..WarningLimit -> "Warning"
      [] OTHER -> "Critical"

\* mutant: the countdown shows the idle seconds, not what is left of reset_time
Elapsed_idle(ph, idle, reset, st, n) ==
    CASE ph = "AwayComplete" -> 0
      [] ph = "Idle" -> idle
      [] OTHER -> as_secs(elapsed_since(st, n))

\* mutant: the countup rounds the elapsed time up to whole seconds
Elapsed_ceil(ph, idle, reset, st, n) ==
    CASE ph = "AwayComplete" -> 0
      [] ph = "Idle" -> reset - idle
      [] OTHER -> as_secs(elapsed_since(st, n) + 999)

\* update, lines 162-180: the displayed seconds
Elapsed(ph, idle, reset, st, n) ==
    CASE ph = "AwayComplete" -> 0
      [] ph = "Idle" -> reset - idle
      [] OTHER -> as_secs(elapsed_since(st, n))

\* update, lines 162-180: the severity
Severity(ph, elapsed) ==
    CASE ph = "AwayComplete" -> "Info"
      [] ph = "Idle" -> IdleState(elapsed)
      [] OTHER -> ActiveState(elapsed)

\* mutant: the AwayComplete branch forgets to reset start_time
NewStartTime_keep(ph, st, n) == st

\* mutant: the AwayComplete branch rewinds start_time to the instant of construction
NewStartTime_zero(ph, st, n) == IF ph = "AwayComplete" THEN 0 ELSE st

\* mutant: the Idle branch resets start_time too
NewStartTime_idle(ph, st, n) == IF ph = "Active" THEN st ELSE n

\* update, line 163: start_time after the classification
NewStartTime(ph, st, n) == IF ph = "AwayComplete" THEN n ELSE st

\* mutant: the minutes are not reduced modulo 60
Fields_nomod(elapsed) ==
    LET seconds0 == elapsed
        minutes0 == (seconds0 - (seconds0 % 60)) \div 60
        seconds  == IF seconds0 >= 60 THEN seconds0 % 60 ELSE seconds0
        hours    == (minutes0 - (minutes0 % 60)) \div 60
    IN  <<hours, minutes0, seconds>>

\* update, lines 182-190: the fields <<hours, minutes, seconds>>
Fields(elapsed) ==
    LET seconds0 == elapsed
        minutes0 == (seconds0 - (seconds0 % 60)) \div 60
        seconds  == IF seconds0 >= 60 THEN seconds0 % 60 ELSE seconds0
        hours    == (minutes0 - (minutes0 % 60)) \div 60
        minutes  == IF minutes0 >= 60 THEN minutes0 % 60 ELSE minutes0
    IN  <<hours, minutes, seconds>>

\* update, line 192: format!("{:02}h{:02}m{:02}", hours, minutes, seconds)
Label(elapsed) ==
    LET f == Fields(elapsed)
    IN  Fmt02(f[1]) \o <<"h">> \o Fmt02(f[2]) \o <<"m">> \o Fmt02(f[3])

\* mutant: every update restarts the drift-compensation window
NewIdleStart_always(same, ist, n) == n

\* update, lines 151-156: idle_start_time after the comparison with idle_last_reading
NewIdleStart(same, ist, n) == IF same THEN ist ELSE n

\* mutant: the compensated value is kept as the last reading
NewLastReading_comp(same, last, idle0, idle_ms) == IF same THEN idle_ms ELSE idle0

\* update, lines 151-157: idle_last_reading after the comparison; idle0 is the raw
\* reading, idle_ms the compensated one
NewLastReading(same, last, idle0, idle_ms) == IF same THEN last ELSE idle0

\* mutant: the update asks not to be called again
Returned_none(interval) == -1

\* update, line 195: Ok(Some(Update::Every(self.update_interval)))
Returned(interval) == interval

\* no update has run yet
NoTick == [raw |-> 0, idle_ms |-> 0, idle |-> 0, elapsed |-> 0, phase |-> "None",
           comp |-> FALSE, same |-> FALSE, pcomp |-> FALSE, after |-> "none",
           at |-> 0, unsup |-> TRUE]

\* Activity::new with configuration c: both anchors are the instant of construction
new(c) ==
    /\ now = 0
    /\ reset_time = c[1]
    /\ idle_threshold = c[2]
    /\ update_interval = c[3]
    /\ start_time = now
    /\ idle_start_time = now
    /\ idle_last_reading = 0
    /\ text = <<>>
    /\ state = "Idle"
    /\ op = "new"
    /\ ret = -1
    /\ tick = NoTick
    /\ last_active = -1
    /\ frozen = FALSE

\* Activity::update, called dt ms after the previous handler, the query answering q
update(dt, q) ==
    LET n       == now + dt
        idle0   == get_idle(q)
        same    == idle0 = idle_last_reading
        comp    == Compensated(idle0, idle_last_reading, idle_start_time, idle_threshold, n)
        idle_ms == Compensate(idle0, idle_last_reading, idle_start_time, idle_threshold, n)
        idle    == idle_ms \div 1000
        ph      == Phase(idle, reset_time, idle_threshold)
        elapsed == Elapsed(ph, idle, reset_time, start_time, n)
    IN  /\ now' = n
        /\ idle_start_time' = NewIdleStart(same, idle_start_time, n)
        /\ idle_last_reading' = NewLastReading(same, idle_last_reading, idle0, idle_ms)
        /\ start_time' = NewStartTime(ph, start_time, n)
        /\ text' = Label(elapsed)
        /\ state' = Severity(ph, elapsed)
        /\ ret' = Returned(update_interval)
        /\ op' = "update"
        /\ tick' = [raw |-> idle0, idle_ms |-> idle_ms, idle |-> idle,
                    elapsed |-> elapsed, phase |-> ph, comp |-> comp, same |-> same,
                    pcomp |-> tick.comp, after |-> op, at |-> n,
                    unsup |-> (tick.unsup /\ q[1] = 0)]
        /\ last_active' = CASE ph = "Active" -> elapsed
                            [] ph = "AwayComplete" -> -1
                            [] OTHER -> last_active
        /\ UNCHANGED <<update_interval, reset_time, idle_threshold, frozen>>

\* mutant: a click also restarts the drift-compensation window
click_idle(dt) ==
    /\ now' = now + dt
    /\ start_time' = now'
    /\ idle_start_time' = now'
    /\ op' = "click"
    /\ last_active' = -1
    /\ UNCHANGED <<update_interval, reset_time, idle_threshold,
                   idle_last_reading, text, state, ret, tick, frozen>>

\* Activity::click, called dt ms after the previous handler
click(dt) ==
    /\ now' = now + dt
    /\ start_time' = now'
    /\ op' = "click"
    /\ last_active' = -1
    /\ UNCHANGED <<update_interval, reset_time, idle_threshold, idle_start_time,
                   idle_last_reading, text, state, ret, tick, frozen>>

\* the environment: from now on the idle reader keeps returning the reading it returned last
Freeze ==
    /\ ~frozen
    /\ op = "update"
    /\ now + 1000 * (IF reset_time > idle_threshold THEN reset_time ELSE idle_threshold) + 1000
         <= MaxNow
    /\ frozen' = TRUE
    /\ UNCHANGED <<now, update_interval, reset_time, idle_threshold, start_time,
                   idle_start_time, idle_last_reading, text, state, op, ret, tick,
                   last_active>>

---------------------------------------------------------------------------
(* src/blocks/gmailcount.rs *)

\* update, line 76: the tag in front of the count
OpenTag == <<"<", "f", "u", "l", "l", "c", "o", "u", "n", "t", ">">>

\* update, line 77: the tag behind the count
CloseTag == <<"<", "/", "f", "u", "l", "l", "c", "o", "u", "n", "t", ">">>

\* update, line 78: the 11 in data[idx_start+11..idx_end], the length of OpenTag
TagLen == 11

\* feeds: some text, then the pieces in the order given
Feed(pieces) == <<"<", "f", "e", "e", "d", ">">> \o pieces

\* the standard output of curl: feeds with the count between the tags, with
\* a tag missing, with the tags in the wrong order, with two counts
Documents ==
    {<<>>, Feed(<<>>)}
    \cup {Feed(OpenTag \o c \o CloseTag) : c \in Counts}
    \cup {OpenTag \o <<"3">> \o CloseTag,
          Feed(OpenTag \o <<"3">>),
          Feed(<<"3">> \o CloseTag),
          Feed(CloseTag \o OpenTag \o <<"3">> \o CloseTag),
          Feed(CloseTag \o <<"3">> \o OpenTag),
          Feed(OpenTag \o <<"3">> \o CloseTag \o OpenTag \o <<"1", "2">> \o CloseTag)}

\* outcomes of running curl, <<kind, standard output>>: the command could not
\* be run, it exited with a failure, its output is not UTF-8, its output is a text
Fetches ==
    {<<"spawn_failed", <<>>>>, <<"invalid_utf8", <<>>>>,
     <<"exit_failure", Feed(OpenTag \o <<"3">> \o CloseTag)>>}
    \cup ({"stdout"} \X Documents)

\* str::find: the byte index of the first occurrence of pat in data, -1 for None
find(data, pat) ==
    LET hits == {i \in 0..(Len(data) - Len(pat)) :
                    SubSeq(data, i + 1, i + Len(pat)) = pat}
    IN  IF hits = {} THEN -1
        ELSE CHOOSE i \in hits : \A j \in hits : i <= j

\* the value of a decimal digit
to_digit(ch) ==
    CASE ch = "0" -> 0 [] ch = "1" -> 1 [] ch = "2" -> 2 [] ch = "3" -> 3
      [] ch = "4" -> 4 [] ch = "5" -> 5 [] ch = "6" -> 6 [] ch = "7" -> 7
      [] ch = "8" -> 8 [] ch = "9" -> 9

RECURSIVE digits_value(_)
\* the number a sequence of decimal digits denotes
digits_value(ds) ==
    IF ds = <<>> THEN 0
    ELSE 10 * digits_value(SubSeq(ds, 1, Len(ds) - 1)) + to_digit(ds[Len(ds)])

\* str::parse::<usize>: an optional + and one decimal digit or more; -1 for Err
parse_usize(s) ==
    LET ds == IF s # <<>> /\ s[1] = "+" THEN Tail(s) ELSE s
    IN  IF ds = <<>> \/ \E i \in 1..Len(ds) :
                          ds[i] \notin {"0", "1", "2", "3", "4", "5", "6", "7", "8", "9"}
        THEN -1
        ELSE digits_value(ds)

\* update, lines 70-78: what the nested if-lets make of the fetch: no count
\* ("none"), a panic of the slice data[idx_start+11..idx_end] ("panic": its
\* begin is beyond its end), or the count parsed ("count")
Outcome(f) ==
    IF f[1] # "stdout" THEN [kind |-> "none", n |-> 0]
    ELSE LET data      == f[2]
             idx_start == find(data, OpenTag)
             idx_end   == find(data, CloseTag)
         IN  IF idx_start = -1 \/ idx_end = -1 THEN [kind |-> "none", n |-> 0]
             ELSE IF idx_start + TagLen > idx_end
                  THEN [kind |-> "panic", n |-> 0]
             ELSE LET newmails == parse_usize(SubSeq(data, idx_start + TagLen + 1, idx_end))
                  IN  IF newmails = -1 THEN [kind |-> "none", n |-> 0]
                      ELSE [kind |-> "count", n |-> newmails]

\* update, lines 79-87: the State for a count
CountState(newmails, warning, critical) ==
    IF newmails >= critical THEN "Critical"
    ELSE IF newmails >= warning THEN "Warning"
    ELSE "Idle"

\* GmailCount::new with configuration g: the text is empty
gmail_new(g) ==
    /\ gmail_interval = g[1]
    /\ threshold_warning = g[2]
    /\ threshold_critical = g[3]
    /\ gmail_text = <<>>
    /\ gmail_state = "Idle"
    /\ gmail_op = "new"
    /\ gmail_ret = -1
    /\ gmail_last = [fetch |-> "none", kind |-> "new", n |-> 0]

\* GmailCount::update, the fetch ending as f; a panic ends the block
gmail_update(f) ==
    LET out == Outcome(f)
    IN  /\ gmail_op # "panicked"
        /\ gmail_last' = [fetch |-> f[1], kind |-> out.kind, n |-> out.n]
        /\ gmail_op' = IF out.kind = "panic" THEN "panicked" ELSE "update"
        /\ gmail_ret' = IF out.kind = "panic" THEN -1 ELSE gmail_interval
        /\ gmail_state' = IF out.kind = "count"
                          THEN CountState(out.n, threshold_warning, threshold_critical)
                          ELSE gmail_state
        /\ gmail_text' = IF out.kind = "count" THEN Decimal(out.n) ELSE gmail_text
        /\ UNCHANGED <<gmail_interval, threshold_warning, threshold_critical>>

---------------------------------------------------------------------------
(* Specifications *)

\* the GmailCount block next to the Activity block, with its defaults
GmailDefault == <<60, 1, 10>>

Init == (\E c \in Configs : new(c)) /\ gmail_new(GmailDefault)

\* a frozen reader answers what it answered last
Answers(q) == frozen => get_idle(q) = idle_last_reading

Tick ==
    /\ \E dt \in Steps, q \in Queries : now + dt <= MaxNow /\ Answers(q) /\ update(dt, q)
    /\ UNCHANGED gvars

Interact == (\E dt \in Steps : now + dt <= MaxNow /\ click(dt)) /\ UNCHANGED gvars

Next == Tick \/ Interact

Spec == Init /\ [][Next]_vars

InitFrozen == (\E c \in FrozenConfigs : new(c)) /\ gmail_new(GmailDefault)

TickFrozen ==
    /\ \E dt \in FrozenSteps, q \in FrozenQueries :
          now + dt <= MaxNow /\ Answers(q) /\ update(dt, q)
    /\ UNCHANGED gvars

\* a tick that comes later than the previous handler: the host calls update again
\* after the interval it returned
TickLater ==
    /\ \E dt \in FrozenSteps \ {0}, q \in FrozenQueries :
          now + dt <= MaxNow /\ Answers(q) /\ update(dt, q)
    /\ UNCHANGED gvars

\* a click that is not the last handler to run within the horizon
InteractFrozen ==
    /\ \E dt \in FrozenSteps, later \in FrozenSteps \ {0} :
          now + dt + later <= MaxNow /\ click(dt)
    /\ UNCHANGED gvars

\* the reader freezes
Stall == Freeze /\ UNCHANGED gvars

NextFrozen == TickFrozen \/ InteractFrozen \/ Stall

\* the scenario of a reader that freezes, the host calling update again and again
FairSpec == InitFrozen /\ [][NextFrozen]_vars /\ WF_vars(TickLater)

InitLong == (\E c \in LongConfigs : new(c)) /\ gmail_new(GmailDefault)

TickLong ==
    /\ \E dt \in LongSteps, q \in LongQueries : now + dt <= LongMaxNow /\ update(dt, q)
    /\ UNCHANGED gvars

InteractLong == (\E dt \in LongSteps : now + dt <= LongMaxNow /\ click(dt)) /\ UNCHANGED gvars

NextLong == TickLong \/ InteractLong

SpecLong == InitLong /\ [][NextLong]_vars

\* the Activity block as constructed with its defaults
ActivityDefault == <<300, 10, 1>>

InitGmail == new(ActivityDefault) /\ (\E g \in GmailConfigs : gmail_new(g))

\* the host calls GmailCount::update
TickGmail == (\E f \in Fetches : gmail_update(f)) /\ UNCHANGED avars

NextGmail == TickGmail

\* the GmailCount block, the Activity block at rest
SpecGmail == InitGmail /\ [][NextGmail]_vars

---------------------------------------------------------------------------
(* Properties *)

\* the state right after an update
Updated == op = "update"

\* C1: a tick whose idle seconds are >= reset_time takes the AwayComplete
\* branch: it shows 0 with severity Info and sets start_time to its instant.
C1_AwayComplete ==
    (Updated /\ tick.idle >= reset_time) =>
        /\ tick.phase = "AwayComplete"
        /\ tick.elapsed = 0
        /\ text = <<"0", "0", "h", "0", "0", "m", "0", "0">>
        /\ state = "Info"
        /\ start_time = tick.at
        /\ start_time = now

\* C1 happens: an AwayComplete tick, later than the construction, reached by
\* compensating a stalled reading, with a reset_time that is not 0
C1_Witness ==
    /\ Updated /\ tick.idle >= reset_time /\ reset_time > 0
    /\ tick.comp /\ tick.raw < reset_time * 1000
    /\ start_time = now /\ now > 0 /\ state = "Info"

\* C2: a tick with idle_threshold <= idle seconds < reset_time shows exactly
\* reset_time - idle seconds, with severity Warning when that is > 0 and Info
\* when it is 0.
C2_IdleCountdown ==
    (Updated /\ idle_threshold <= tick.idle /\ tick.idle < reset_time) =>
        /\ tick.elapsed = reset_time - tick.idle
        /\ text = Label(reset_time - tick.idle)
        /\ (tick.elapsed > 0 => state = "Warning")
        /\ (tick.elapsed = 0 => state = "Info")

\* C2 happens: a countdown of 2 s is shown as a Warning
C2_Witness ==
    /\ Updated /\ idle_threshold <= tick.idle /\ tick.idle < reset_time
    /\ tick.elapsed = 2 /\ state = "Warning"
    /\ text = <<"0", "0", "h", "0", "0", "m", "0", "2">>

\* C3 as claimed: the tick of the final second before AwayComplete (idle
\* seconds = reset_time - 1, in the Idle branch) has severity Info.
C3_FinalSecondInfo ==
    (Updated /\ tick.phase = "Idle" /\ tick.idle = reset_time - 1) => state = "Info"

\* C3, amended: every tick of the Idle branch shows a countdown >= 1 with
\* severity Warning, the final second (countdown 1) included; Info is shown
\* by the AwayComplete tick, not by an Idle tick.
C3_IdleAlwaysWarning ==
    (Updated /\ idle_threshold <= tick.idle /\ tick.idle < reset_time) =>
        /\ tick.phase = "Idle"
        /\ tick.elapsed >= 1
        /\ state = "Warning"
        /\ (tick.idle = reset_time - 1 => tick.elapsed = 1)

\* C3 happens: the final second of a countdown, shown as a Warning
C3_Witness ==
    /\ Updated /\ tick.phase = "Idle" /\ tick.idle = reset_time - 1
    /\ tick.elapsed = 1 /\ state = "Warning"

\* C4: a tick with idle seconds < idle_threshold shows the whole seconds
\* from start_time to its instant, and an Active tick never shows less than
\* the Active tick before it when no click and no AwayComplete tick came
\* in between.
C4_ActiveCountup ==
    [][(op' = "update" /\ tick'.idle < idle_threshold') =>
          /\ tick'.elapsed = (tick'.at - start_time') \div 1000
          /\ text' = Label((now' - start_time') \div 1000)
          /\ (tick'.phase = "Active" /\ last_active # -1
                => tick'.elapsed >= last_active)]_vars

\* C4 happens: an Active tick 2 s after the construction, on which the raw
\* reading has changed, shows a countup of 2
C4_Witness ==
    /\ Updated /\ tick.phase = "Active" /\ tick.idle < idle_threshold
    /\ tick.elapsed = 2 /\ last_active = 2 /\ start_time = 0
    /\ tick.raw = 900 /\ idle_start_time = now

\* C5: in the Active branch the severity depends on the countup alone:
\* Info up to 1800 s, Warning above 1800 s up to 3000 s, Critical above
\* 3000 s, whatever reset_time and idle_threshold are.
C5_ActiveSeverity ==
    (Updated /\ tick.phase = "Active") =>
        /\ tick.idle < idle_threshold
        /\ (tick.elapsed <= 1800 => state = "Info")
        /\ (tick.elapsed > 1800 /\ tick.elapsed <= 3000 => state = "Warning")
        /\ (tick.elapsed > 3000 => state = "Critical")
        /\ (tick.elapsed = 1800 => state = "Info")
        /\ (tick.elapsed = 1801 => state = "Warning")
        /\ (tick.elapsed = 3000 => state = "Warning")
        /\ (tick.elapsed = 3001 => state = "Critical")

\* C5 happens: a countup of 3001 s is Critical under a configuration that
\* is not the default one
C5_Witness ==
    /\ Updated /\ tick.phase = "Active" /\ tick.elapsed = 3001
    /\ state = "Critical" /\ reset_time = 4000 /\ idle_threshold = 2000

\* the number a character of the label stands for, 10 for any other character
DigitValue(c) == CASE c = "0" -> 0 [] c = "1" -> 1 [] c = "2" -> 2 [] c = "3" -> 3
                   [] c = "4" -> 4 [] c = "5" -> 5 [] c = "6" -> 6 [] c = "7" -> 7
                   [] c = "8" -> 8 [] c = "9" -> 9 [] OTHER -> 10

RECURSIVE Number(_)
\* the number a sequence of decimal digits stands for
Number(s) == IF s = <<>> THEN 0
             ELSE 10 * Number(SubSeq(s, 1, Len(s) - 1)) + DigitValue(s[Len(s)])

\* the label read back: its three fields of digits around one "h" and one "m",
\* <<>> when the label has no such shape
ReadLabel(s) ==
    LET hs == {i \in 1..Len(s) : s[i] = "h"}
        ms == {i \in 1..Len(s) : s[i] = "m"}
        ds == {i \in 1..Len(s) : DigitValue(s[i]) < 10}
    IN  IF Cardinality(hs) = 1 /\ Cardinality(ms) = 1
           /\ Cardinality(ds) = Len(s) - 2
        THEN LET h == CHOOSE i \in hs : TRUE
                 m == CHOOSE i \in ms : TRUE
             IN  IF h < m
                 THEN <<SubSeq(s, 1, h - 1), SubSeq(s, h + 1, m - 1),
                        SubSeq(s, m + 1, Len(s))>>
                 ELSE <<>>
        ELSE <<>>

\* C6: the label of a displayed value e is HHhMMmSS with hours = e / 3600,
\* minutes = (e / 60) % 60, seconds = e % 60, each written with at least two
\* digits; minutes and seconds are in 0..59 and the three add up to e.
C6_Label ==
    Updated =>
        LET e == tick.elapsed
            f == ReadLabel(text)
        IN  /\ e >= 0
            /\ f # <<>>
            /\ Len(f[1]) >= 2 /\ Len(f[2]) = 2 /\ Len(f[3]) = 2
            /\ (Len(f[1]) > 2 => f[1][1] # "0")
            /\ Number(f[1]) = e \div 3600
            /\ Number(f[2]) = (e \div 60) % 60
            /\ Number(f[3]) = e % 60
            /\ Number(f[2]) \in 0..59 /\ Number(f[3]) \in 0..59
            /\ Number(f[1]) * 3600 + Number(f[2]) * 60 + Number(f[3]) = e
            /\ (e = 3725 => text = <<"0", "1", "h", "0", "2", "m", "0", "5">>)
            /\ (e = 59 => text = <<"0", "0", "h", "0", "0", "m", "5", "9">>)
            /\ (e = 3600 => text = <<"0", "1", "h", "0", "0", "m", "0", "0">>)

\* C6 happens: 3725 s are shown as 01h02m05
C6_Witness ==
    /\ Updated /\ tick.elapsed = 3725
    /\ text = <<"0", "1", "h", "0", "2", "m", "0", "5">>

\* C7: a click sets start_time to its instant and leaves idle_start_time,
\* idle_last_reading, the configured durations, the label and the severity
\* as they were.
C7_ClickFrame ==
    [][op' = "click" =>
          /\ start_time' = now'
          /\ UNCHANGED <<idle_start_time, idle_last_reading, reset_time,
                         idle_threshold, update_interval, text, state>>]_vars

\* C7 happens: a click during a countdown, later than the reading last changed
C7_Witness ==
    /\ op = "click" /\ start_time = now /\ idle_start_time < now
    /\ idle_last_reading > 0 /\ tick.phase = "Idle" /\ state = "Warning"

\* C8: the tick right after a click, when its idle seconds are >=
\* idle_threshold, is still Idle or AwayComplete: it shows the countdown or 0.
C8_ClickThenIdleTick ==
    (Updated /\ tick.after = "click" /\ tick.idle >= idle_threshold) =>
        /\ tick.phase \in {"Idle", "AwayComplete"}
        /\ tick.elapsed = (IF tick.idle >= reset_time THEN 0 ELSE reset_time - tick.idle)
        /\ text = Label(tick.elapsed)
        /\ state = (IF tick.phase = "Idle" THEN "Warning" ELSE "Info")

\* C8 happens: a click, and then a later tick that shows a countdown
C8_Witness ==
    /\ Updated /\ tick.after = "click" /\ tick.idle >= idle_threshold
    /\ tick.phase = "Idle" /\ 0 < start_time /\ start_time < now

\* the step of an update that, like the update before it, reads the raw value
\* kept in idle_last_reading, the earlier one at least idle_threshold seconds
\* after the reading last changed
StalledTwice == op' = "update" /\ tick.phase # "None" /\ tick.comp /\ tick'.same

\* C9 as claimed: the later of two such ticks computes a strictly greater
\* compensated idle value than the earlier one (stated here for a later tick
\* at a later instant only, and a threshold that is not 0).
C9_StrictlyGreater ==
    [][(StalledTwice /\ tick'.at > tick.at /\ idle_threshold > 0)
          => tick'.idle_ms > tick.idle_ms]_vars

\* C9, amended: the later tick's compensated value is never smaller than the
\* earlier one's, and is strictly greater whenever the later tick runs at
\* least one second after the earlier one.
C9_GreaterAfterASecond ==
    [][StalledTwice =>
          /\ tick'.comp
          /\ tick'.idle_ms >= tick.idle_ms
          /\ (tick'.at - tick.at >= 1000 => tick'.idle_ms > tick.idle_ms)]_vars

\* C9 happens: two compensated ticks in a row, the stall having lasted more
\* than idle_threshold seconds
C9_Witness ==
    /\ Updated /\ tick.pcomp /\ tick.comp /\ tick.same /\ idle_threshold >= 1
    /\ tick.idle_ms >= tick.raw + 1000 * (idle_threshold + 1)

\* C10: once the reader is frozen, the ticks going on and time advancing,
\* the phase becomes AwayComplete and stays AwayComplete.
C10_FrozenEndsAway == [](frozen => <>[](tick.phase = "AwayComplete"))

\* C10 happens: a reader frozen below idle_threshold, AwayComplete by compensation
C10_Witness ==
    /\ frozen /\ Updated /\ tick.phase = "AwayComplete" /\ tick.comp
    /\ tick.raw < idle_threshold * 1000 /\ idle_threshold < reset_time

\* C11: idle_start_time and idle_last_reading are assigned together, by an
\* update whose raw reading differs from idle_last_reading and by nothing
\* else: such an update sets them to its instant and its raw reading; an
\* update whose raw reading equals idle_last_reading and a click leave both
\* as they were.  So after an update idle_last_reading is its raw reading.
C11_IdleFieldsTogether ==
    [][/\ (idle_start_time' # idle_start_time \/ idle_last_reading' # idle_last_reading)
             => /\ op' = "update"
                /\ tick'.raw # idle_last_reading
                /\ idle_start_time' = now'
                /\ idle_last_reading' = tick'.raw
       /\ (op' = "update" /\ tick'.raw # idle_last_reading)
             => (idle_start_time' = now' /\ idle_last_reading' # idle_last_reading)
       /\ (op' = "update" /\ tick'.raw = idle_last_reading)
             => UNCHANGED <<idle_start_time, idle_last_reading>>
       /\ op' = "click" => UNCHANGED <<idle_start_time, idle_last_reading>>
       /\ op' = "update" => idle_last_reading' = tick'.raw]_vars

\* C11 happens: a changed reading, later than the construction, has been stored
\* and a compensated update after it has left both fields alone
C11_Witness ==
    /\ Updated /\ tick.comp /\ tick.idle_ms > tick.raw
    /\ idle_last_reading = tick.raw /\ tick.raw > 0
    /\ 0 < idle_start_time /\ idle_start_time < now

\* C12: start_time never moves backwards: every step leaves it or replaces
\* it with the current instant, which is not before it; and it is never
\* later than the current instant.
C12_StartTimeForward ==
    /\ start_time <= now
    /\ [][/\ start_time' >= start_time
          /\ (start_time' = start_time \/ start_time' = now')
          /\ start_time' <= now']_vars

\* C12 happens: start_time has been replaced by an AwayComplete update and then
\* by a later click
C12_Witness ==
    /\ op = "click" /\ tick.phase = "AwayComplete"
    /\ start_time = now /\ start_time > tick.at /\ tick.at > 0

\* C13 as claimed: two ticks that agree on the raw reading, the configured
\* durations and the whole seconds since start_time are classified alike
\* (stated here for an Active tick and the tick after it).
C13_PhaseOfRawAndCountup ==
    [][(/\ op' = "update" /\ tick.phase = "Active"
        /\ tick'.raw = tick.raw
        /\ as_secs(now' - start_time) = tick.elapsed)
          => tick'.phase = tick.phase]_vars

\* the branch as a function of the raw reading, the configured durations,
\* the reading kept from before and the whole seconds since it last changed
PhaseOf(raw, reset, thr, last, stalled) ==
    LET ms == IF raw = last /\ stalled >= thr THEN raw + 1000 * stalled ELSE raw
    IN  CASE ms \div 1000 >= reset -> "AwayComplete"
          [] ms \div 1000 < reset /\ ms \div 1000 >= thr -> "Idle"
          [] ms \div 1000 < reset /\ ms \div 1000 < thr -> "Active"

\* C13, amended: every tick selects exactly one of Active, Idle, AwayComplete,
\* and the selection is a function of the raw reading, reset_time,
\* idle_threshold, idle_last_reading and the whole seconds since
\* idle_start_time; it does not depend on start_time.
C13_PhaseOfIdleFields ==
    [][op' = "update" =>
          /\ tick'.phase \in {"Active", "Idle", "AwayComplete"}
          /\ tick'.phase = PhaseOf(tick'.raw, reset_time, idle_threshold,
                                   idle_last_reading,
                                   (now' - idle_start_time) \div 1000)]_vars

\* C13 happens: right after a click a raw reading below idle_threshold is
\* classified Idle, the reading having stalled
C13_Witness ==
    /\ Updated /\ tick.after = "click" /\ start_time < now
    /\ as_secs(now - start_time) = 0
    /\ tick.raw < idle_threshold * 1000 /\ tick.phase = "Idle" /\ tick.comp

\* C14: an update is possible in every state for every answer of the idle
\* query; no subtraction in it goes below 0, the label is well formed, the
\* severity is one of the three, and it returns Update::Every(update_interval).
C14_UpdateTotal ==
    /\ \A dt \in {0}, q \in Queries : ENABLED update(dt, q)
    /\ Updated =>
          /\ ret = update_interval
          /\ tick.idle_ms >= 0 /\ tick.idle >= 0 /\ tick.elapsed >= 0
          /\ (tick.phase = "Idle" => reset_time - tick.idle >= 0)
          /\ now - start_time >= 0 /\ now - idle_start_time >= 0
          /\ ReadLabel(text) # <<>>
          /\ state \in {"Info", "Warning", "Critical"}

\* C14 happens: an update of an unsupported query, with idle_threshold above
\* reset_time, has returned the interval 1
C14_Witness ==
    /\ Updated /\ tick.unsup /\ idle_threshold > reset_time
    /\ ret = 1 /\ update_interval = 1 /\ now > 0

\* C15: the idle value an update classifies is raw + 1000 * whole seconds
\* since idle_start_time when raw equals idle_last_reading and those seconds
\* are >= idle_threshold, else raw; the idle seconds are that value divided
\* by 1000; idle_last_reading keeps the raw value, never the compensated one.
C15_Compensation ==
    [][op' = "update" =>
          LET stalled == (now' - idle_start_time) \div 1000
          IN  /\ tick'.idle_ms =
                    (IF tick'.raw = idle_last_reading /\ stalled >= idle_threshold
                     THEN tick'.raw + 1000 * stalled
                     ELSE tick'.raw)
              /\ tick'.idle = tick'.idle_ms \div 1000
              /\ idle_last_reading' = tick'.raw]_vars

\* C15 happens: a reading of 900 ms stalled for 2 s is classified as 2900 ms,
\* 2 idle seconds, 900 being kept
C15_Witness ==
    /\ Updated /\ tick.raw = 900 /\ tick.idle_ms = 2900 /\ tick.idle = 2
    /\ idle_last_reading = 900

\* C16 as claimed: from one compensated tick to the next the compensated
\* value grows by more than the milliseconds that have passed.
C16_FasterThanTime ==
    [][(StalledTwice /\ tick'.at > tick.at)
          => tick'.idle_ms - tick.idle_ms > tick'.at - tick.at]_vars

\* C16, amended: while the raw reading stays frozen the compensated value is
\* raw + 1000 * whole seconds since idle_start_time, so from one compensated
\* tick to the next it grows by exactly 1000 ms for each whole second that
\* has been completed since idle_start_time in between, early or late in
\* the stall alike: by less than a second more or less than the time passed.
C16_LinearGrowth ==
    [][StalledTwice =>
          /\ UNCHANGED idle_start_time
          /\ tick'.idle_ms - tick.idle_ms =
                1000 * (as_secs(tick'.at - idle_start_time)
                          - as_secs(tick.at - idle_start_time))
          /\ tick'.idle_ms - tick.idle_ms < (tick'.at - tick.at) + 1000
          /\ tick'.idle_ms - tick.idle_ms > (tick'.at - tick.at) - 1000]_vars

\* C16 happens: late in a stall, 4 s after the reading last changed, a
\* compensated tick follows a compensated tick
C16_Witness ==
    /\ Updated /\ tick.pcomp /\ tick.comp /\ idle_threshold = 1
    /\ tick.idle_ms = tick.raw + 4000 /\ now - idle_start_time >= 4000

\* C17 as claimed: while no query has been supported since the construction,
\* the idle value classified is 0 ms and, idle_threshold being > 0, every
\* tick is Active and shows the countup since start_time.
C17_UnsupportedStaysActive ==
    (Updated /\ tick.unsup /\ idle_threshold > 0) =>
        /\ tick.raw = 0
        /\ tick.idle_ms = 0
        /\ tick.phase = "Active"
        /\ tick.elapsed = as_secs(now - start_time)

\* C18: an Active or Idle update leaves start_time as it was; only an
\* AwayComplete update and a click change it.
C18_StartTimeFrame ==
    [][/\ (op' = "update" /\ tick'.phase \in {"Active", "Idle"})
             => start_time' = start_time
       /\ start_time' # start_time
             => (op' = "click" \/ (op' = "update" /\ tick'.phase = "AwayComplete"))]_vars

\* C18 happens: an Active update right after a compensated Idle one shows a
\* countup from the construction that includes the idle seconds
C18_Witness ==
    /\ Updated /\ tick.phase = "Active" /\ tick.pcomp /\ tick.after = "update"
    /\ idle_threshold >= 1 /\ start_time = 0 /\ tick.elapsed >= 2

\* C19: a compensated update has idle seconds >= idle_threshold: it is Idle
\* or AwayComplete, never Active, and an Idle one shows a countdown of at
\* most reset_time - idle_threshold.
C19_CompensatedNotActive ==
    (Updated /\ tick.comp) =>
        /\ tick.idle >= idle_threshold
        /\ tick.phase \in {"Idle", "AwayComplete"}
        /\ (tick.phase = "Idle" => tick.elapsed <= reset_time - idle_threshold)

\* C19 happens: a reader frozen below idle_threshold goes from an Active
\* update to a first compensated one that shows the full countdown
C19_Witness ==
    /\ Updated /\ tick.comp /\ ~tick.pcomp /\ tick.after = "update"
    /\ tick.raw < idle_threshold * 1000 /\ last_active >= 0
    /\ tick.phase = "Idle" /\ tick.elapsed = reset_time - idle_threshold

\* C20 as claimed: GmailCount::update never panics and returns
\* Update::Every(update_interval) for every outcome of the fetch; unless a
\* count n is parsed it leaves text and state unchanged; when n is parsed the
\* text becomes n and the state Critical if n >= threshold_critical, else
\* Warning if n >= threshold_warning, else Idle.
C20_GmailUpdateTotal ==
    [][/\ gmail_op' # "panicked"
       /\ gmail_op' = "update" =>
             /\ gmail_ret' = gmail_interval
             /\ gmail_last'.kind # "count" => UNCHANGED <<gmail_text, gmail_state>>
             /\ gmail_last'.kind = "count" =>
                   /\ gmail_text' = Decimal(gmail_last'.n)
                   /\ gmail_state' =
                         (IF gmail_last'.n >= threshold_critical THEN "Critical"
                          ELSE IF gmail_last'.n >= threshold_warning THEN "Warning"
                          ELSE "Idle")]_vars

===========================================================================
